---- MODULE Spec2Model ----
(***************************************************************************)
(* pip-tools: the compile command (piptools/scripts/compile.py) driving    *)
(* the Resolver through a Repository, and the sync command                 *)
(* (piptools/scripts/sync.py) driving merge, diff and the install and      *)
(* uninstall batches.                                                      *)
(*                                                                         *)
(* piptools/resolver.py, piptools/sync.py, piptools/repositories and       *)
(* piptools/cache.py are not part of the source tree at hand; the          *)
(* operators that stand for them follow the natural-language design        *)
(* (sections 4.1 to 4.6) and say so where they are defined.                *)
(***************************************************************************)
EXTENDS Integers, FiniteSets, Sequences, TLC

(***************************************************************************)
(* Bounds of the model.                                                    *)
(***************************************************************************)
\* Versions a package has in the index: 0..MaxVer.
MaxVer == 2
\* Requirement lines in the source files of one compile run.
MaxSrc == 2
\* Largest --max-rounds tried.
MaxRoundsArg == 3

(***************************************************************************)
(* Requirements.                                                           *)
(***************************************************************************)
Packages == {"a", "b", "foo", "setuptools"}
Versions == 0..MaxVer
\* Versions a specifier may admit, whether or not an index holds them.
AnyVersion == (-1)..(MaxVer + 1)

\* Environment markers: each names the one platform it is true on.
Environments == {"linux", "win32", "darwin"}
NoMarker == "none"

\* A requirement line: package name, at most one version clause (op "any":
\* none), an environment marker and the constraint-only flag.
Line(name, op, ver, marker, constraint) ==
    [name |-> name, op |-> op, ver |-> ver, marker |-> marker,
     constraint |-> constraint]

\* A pinned requirement name==version.
Pin(key, ver, constraint) == [key |-> key, ver |-> ver, constraint |-> constraint]

\* utils.key_from_ireq, key_from_req: the names of the model are already
\* lowercase and use '-'.
key_from_ireq(ireq) == ireq.name

\* The specifier set of a group of requirement lines: its version clauses.
Specifier(G) == {[op |-> r.op, ver |-> r.ver] : r \in {x \in G : x.op # "any"}}

\* One clause of a specifier admits version v.
ClauseContains(c, v) ==
    CASE c.op = "==" -> v = c.ver
      [] c.op = "===" -> v = c.ver
      [] c.op = ">=" -> v >= c.ver
      [] c.op = ">"  -> v > c.ver
      [] c.op = "<"  -> v < c.ver
      [] OTHER -> FALSE

\* SpecifierSet.contains / SpecifierSet.filter: every clause admits v.
Contains(specifier, v) == \A c \in specifier : ClauseContains(c, v)

\* markers.evaluate() on the running platform.
MarkerEvaluate(marker, env) == marker = env

\* Two markers that cannot both be true on one platform.
MutuallyExclusive(m1, m2) == m1 # NoMarker /\ m2 # NoMarker /\ m1 # m2

\* utils.is_pinned_requirement: exactly one specifier (a line of the model has
\* one or none), whose operator is == or ===.
is_pinned_requirement(ireq) == ireq.op \in {"==", "==="}

(***************************************************************************)
(* The package index behind the Repository (tests/conftest.py,             *)
(* FakeRepository: index[name][version][extra] is a list of lines).        *)
(***************************************************************************)
IndexNames == {"chain", "versioned", "cycle"}

\* Two more indexes: x depending on y>=1 with x==1, y==1 and y==2 on offer
\* (here a and foo), and a package that depends on setuptools.
ScenarioIndexNames == {"scenario", "unsafe"}

UnsafePackagesWithoutSetuptools == {"distribute", "pip"}

\* utils.py, line 29.
UNSAFE_PACKAGES == {"setuptools", "distribute", "pip"}

\* The versions index[name] holds.
IndexVersions(ix, name) ==
    CASE ix = "scenario" /\ name = "a" -> {1}
      [] ix = "scenario" /\ name = "foo" -> {1, 2}
      [] ix = "scenario" -> {}
      [] OTHER -> Versions

\* The dependency lines the index declares for name==version.
IndexDeps(ix, name, version) ==
    CASE ix = "chain" /\ name = "a" -> {Line("b", "any", 0, NoMarker, FALSE)}
      [] ix = "chain" /\ name = "b" -> {Line("foo", "any", 0, NoMarker, FALSE)}
      [] ix = "versioned" /\ name = "a" ->
            {Line("foo", ">=", version, NoMarker, FALSE)}
      [] ix = "versioned" /\ name = "b" -> {Line("foo", "<", 2, NoMarker, FALSE)}
      [] ix = "versioned" /\ name = "foo" /\ version >= 2 ->
            {Line("b", "==", 1, NoMarker, FALSE)}
      [] ix = "cycle" /\ name = "a" -> {Line("b", "any", 0, NoMarker, FALSE)}
      [] ix = "cycle" /\ name = "b" -> {Line("a", "any", 0, NoMarker, FALSE)}
      [] ix = "scenario" /\ name = "a" -> {Line("foo", ">=", 1, NoMarker, FALSE)}
      [] ix = "unsafe" /\ name = "a" -> {Line("setuptools", "any", 0, NoMarker, FALSE)}
      [] OTHER -> {}

Max(S) == CHOOSE x \in S : \A y \in S : y <= x

NoCandidate == 0 - 1

FakeFindLowestMatch(ix, key, specifier) ==
    LET versions == {v \in IndexVersions(ix, key) : Contains(specifier, v)}
    IN  IF versions = {} THEN NoCandidate
        ELSE CHOOSE x \in versions : \A y \in versions : x <= y

\* FakeRepository.find_best_match: the highest version of the index that the
\* specifier admits, NoCandidateFound when there is none.
FakeFindBestMatch(ix, key, specifier) ==
    LET versions == {v \in IndexVersions(ix, key) : Contains(specifier, v)}
    IN  IF versions = {} THEN NoCandidate ELSE Max(versions)

\* FakeRepository.get_dependencies: the lines of index[name][version][""],
\* each carrying the constraint flag of the requirement asked about.
GetDependencies(ix, pin) ==
    {[d EXCEPT !.constraint = pin.constraint] : d \in IndexDeps(ix, pin.key, pin.ver)}

(***************************************************************************)
(* State.                                                                  *)
(***************************************************************************)
VARIABLES
    \* ---- compile ----
    args,           \* the parsed command line
    src_lines,      \* the requirement lines of the source files
    output_file,    \* the output file: exists, lines (its requirement lines)
    index,          \* the package index the repository serves
    environment,    \* the platform markers are evaluated on
    pc,             \* where cli stands
    existing_pins,  \* key -> pinned version handed to the proxy (NoCandidate: none)
    existing_pins_to_upgrade,
    proxied,        \* repository is a LocalRequirementsRepository
    constraints,    \* the constraints handed to the Resolver
    resolver,       \* the Resolver: known, expanded, current_round, best_matches
    results,        \* what resolve() returned
    exit_code,      \* sys.exit status, NoExit while running
    index_queries,  \* history: keys the wrapped repository was asked to match
    pin_reuses,     \* history: keys the proxy answered from an existing pin
    cwd,            \* the default source files the current directory holds
    out_path,       \* cli's local output_file: the name of the output file
    disk,           \* the output file on disk now: exists, lines
    hashes,         \* what resolve_hashes returned, by pin; None without --generate-hashes
    raised,         \* the exception that left cli uncaught, "none" if none
    cache,          \* the dependency cache: its entries
    cache_log,      \* history: the writes and clears a client of the cache made, in order
    cache_got,      \* the last read of that client: key, got, at (operations before it)
    \* ---- sync ----
    sync_args,      \* the parsed command line: ask, dry_run, force
    src_files,      \* the requirement files named on the command line
    requirements_txt, \* requirements.txt exists in the current directory
    requirements,   \* the requirement lines of the files, in order
    installed,      \* the environment: key -> installed version (NotInstalled: none)
    confirm_input,  \* what stdin answers to the confirmation prompt: "y" or "n"
    sync_pc,        \* where the sync run stands
    sync_exit,      \* exit status of the command / return of sync.sync
    uncaught,       \* the exception that ended the run, "none" if none
    merged,         \* what merge returned
    to_install,     \* the plan: target entries to install
    to_uninstall,   \* the plan: keys to uninstall
    calls,          \* history: the batch events, in order
    \* ---- utils, logging ----
    call,           \* a call of a helper function: fn and its arguments
    ret,            \* what that call returned or raised, Pending before it ran
    log             \* the LogContext: current_indent, and the indentation() scopes open

cliVars == <<cwd, out_path, disk, hashes, raised>>

cacheVars == <<cache, cache_log, cache_got>>

compileVars == <<args, src_lines, output_file, index, environment, pc,
                 existing_pins, existing_pins_to_upgrade, proxied, constraints,
                 resolver, results, exit_code, index_queries, pin_reuses,
                 cliVars, cacheVars>>

syncVars == <<sync_args, src_files, requirements_txt, requirements, installed,
              confirm_input, sync_pc, sync_exit, uncaught, merged, to_install, to_uninstall, calls>>

utilVars == <<call, ret, log>>

vars == <<compileVars, syncVars, utilVars>>

NoExit == 0 - 1

NotInstalled == 0 - 1

(***************************************************************************)
(* Inputs of a compile run.                                                *)
(***************************************************************************)
\* Lines the source files are drawn from.
SrcPool ==
    { Line("a", "any", 0, NoMarker, FALSE),
      Line("foo", "any", 0, NoMarker, FALSE),
      Line("foo", ">", 1, NoMarker, FALSE),
      Line("foo", "<", 1, NoMarker, FALSE),
      Line("foo", ">", 1, "linux", FALSE),
      Line("foo", "<", 1, "win32", FALSE),
      Line("b", "==", 1, NoMarker, TRUE) }

\* Lines a previous run may have left in the output file.
OutputPool ==
    { Line("foo", "==", 1, NoMarker, FALSE),
      Line("a", ">=", 1, NoMarker, FALSE) }

UpgradePool == {"foo"}

EmptyResolver ==
    [known |-> {}, expanded |-> {}, current_round |-> 0, best_matches |-> {},
     unsafe_constraints |-> {}, error |-> "none"]

\* A file name, as its parts between the dots.
RequirementsIn == <<"requirements", "in">>
RequirementsTxt == <<"requirements", "txt">>
SetupPy == <<"setup", "py">>
Stdin == <<"-">>
\* No name: None, or the empty string.
NoName == <<>>

\* compile.add_args: the defaults of the options the model follows.
DefaultArgs ==
    [upgrade |-> FALSE, upgrade_packages |-> {}, max_rounds |-> 1,
     allow_unsafe |-> FALSE, rebuild |-> FALSE, dry_run |-> FALSE,
     generate_hashes |-> FALSE, src_files |-> <<RequirementsIn>>,
     output_file |-> NoName]

\* hashes = None.
NoHashes == [given |-> FALSE, of |-> {}, error |-> FALSE]

(***************************************************************************)
(* DependencyCache (design 4.2): entries keyed by (name, version).         *)
(***************************************************************************)
CacheKeys == Packages \X Versions

Miss == [state |-> "miss", deps |-> {}]

\* An entry of the cache directory: readable ("ok") or corrupt.
Entry(k, state, deps) == [key |-> k, state |-> state, deps |-> deps]

EmptyCache == {}

\* A cache directory none of whose entries can be read.
CorruptCache == {Entry(k, "corrupt", {}) : k \in CacheKeys}

CacheReadCorruptAsEmpty(c, k) ==
    IF \E e \in c : e.key = k
    THEN [state |-> "ok", deps |-> (CHOOSE e \in c : e.key = k).deps]
    ELSE Miss

\* read: the entry of the key, a miss when there is none or it is corrupt.
CacheRead(c, k) ==
    IF \E e \in c : e.key = k /\ e.state = "ok"
    THEN [state |-> "ok", deps |-> (CHOOSE e \in c : e.key = k /\ e.state = "ok").deps]
    ELSE Miss

\* write: persists at once, the last write of a key wins.
CacheWrite(c, k, deps) == {e \in c : e.key # k} \cup {Entry(k, "ok", deps)}

CacheClearKeepsEntries(c) == c

\* clear: drops every entry.
CacheClear(c) == EmptyCache

NothingRead == [key |-> <<>>, got |-> Miss, at |-> 0]

\* The cache and the cli variables before a run.
FreshCache ==
    /\ cache = EmptyCache
    /\ cache_log = <<>>
    /\ cache_got = NothingRead

FreshCli ==
    /\ cwd = {}
    /\ hashes = NoHashes
    /\ raised = "none"

\* The sync side while a compile run is looked at.
\* No helper function has been called; logging.py, lines 26-29 and 69: the
\* module's LogContext as constructed (indent_width 2), no scope open.
NoCall == [fn |-> "none"]
Pending == [raised |-> "pending"]
DefaultIndentWidth == 2
\* scopes: the value of current_indent each open indentation() scope was
\* entered at, innermost last; unwinding: an exception is propagating;
\* trace: history of what was done with the context.
LogContext(indent_width) ==
    [current_indent |-> 0, indent_width |-> indent_width, scopes |-> <<>>,
     unwinding |-> FALSE, trace |-> <<>>]
IdleUtils ==
    /\ call = NoCall
    /\ ret = Pending
    /\ log = LogContext(DefaultIndentWidth)

IdleSync ==
    /\ sync_args = [ask |-> FALSE, dry_run |-> FALSE, force |-> FALSE]
    /\ src_files = <<>>
    /\ requirements_txt = FALSE
    /\ requirements = <<>>
    /\ installed = [k \in Packages |-> NotInstalled]
    /\ confirm_input = "n"
    /\ sync_pc = "idle"
    /\ sync_exit = NoExit
    /\ uncaught = "none"
    /\ merged = {}
    /\ to_install = {}
    /\ to_uninstall = {}
    /\ calls = <<>>

InitCompile ==
    /\ IdleSync
    /\ IdleUtils
    /\ \E u \in BOOLEAN, P \in SUBSET UpgradePool, m \in 1..MaxRoundsArg :
          args = [DefaultArgs EXCEPT !.upgrade = u, !.upgrade_packages = P,
                                     !.max_rounds = m]
    /\ FreshCli
    /\ FreshCache
    /\ src_lines \in {S \in SUBSET SrcPool : Cardinality(S) <= MaxSrc}
    /\ output_file \in [exists : BOOLEAN, lines : SUBSET OutputPool]
    /\ (~output_file.exists => output_file.lines = {})
    /\ out_path = RequirementsTxt
    /\ disk = output_file
    /\ index \in IndexNames
    /\ environment \in Environments
    /\ pc = "setup"
    /\ existing_pins = [k \in Packages |-> NoCandidate]
    /\ existing_pins_to_upgrade = {}
    /\ proxied = FALSE
    /\ constraints = {}
    /\ resolver = EmptyResolver
    /\ results = {}
    /\ exit_code = NoExit
    /\ index_queries = {}
    /\ pin_reuses = {}

(***************************************************************************)
(* compile.cli, lines 263 to 297: the repository and the proxy.            *)
(***************************************************************************)
\* install_req_from_line(pkg) for pkg in args.upgrade_packages, keyed.
upgrade_install_reqs ==
    {Line(p, "any", 0, NoMarker, FALSE) : p \in args.upgrade_packages}

UpgradeKeys == {key_from_ireq(r) : r \in upgrade_install_reqs}

AllOutputLines == output_file.lines

\* Line 289, filter(is_pinned_requirement, ireqs): the pinned lines of the
\* existing output file.
PinnedOutputLines == {l \in output_file.lines : is_pinned_requirement(l)}

UseProxyOnUpgrade == args.upgrade /\ output_file.exists

\* Line 275: proxy unless --upgrade, and only over an existing output file.
UseProxy == ~args.upgrade /\ out_path # NoName /\ output_file.exists

KeepPinIgnoringUpgrade(key) == TRUE

\* Lines 291 to 294: a pin is kept for the proxy unless its key is an
\* --upgrade-package key.
KeepPin(key) == key \notin UpgradeKeys

Setup ==
    /\ UNCHANGED syncVars
    /\ UNCHANGED utilVars
    /\ pc = "setup"
    /\ IF UseProxy
       THEN /\ existing_pins' =
                 [k \in Packages |->
                    IF KeepPin(k) /\ \E l \in PinnedOutputLines : key_from_ireq(l) = k
                    THEN (CHOOSE l \in PinnedOutputLines : key_from_ireq(l) = k).ver
                    ELSE NoCandidate]
            /\ existing_pins_to_upgrade' =
                 {key_from_ireq(l) : l \in {x \in PinnedOutputLines : ~KeepPin(key_from_ireq(x))}}
            /\ proxied' = TRUE
       ELSE UNCHANGED <<existing_pins, existing_pins_to_upgrade, proxied>>
    /\ pc' = "collect"
    /\ UNCHANGED <<args, src_lines, output_file, index, environment, constraints,
                   resolver, results, exit_code, index_queries, pin_reuses>>
    /\ UNCHANGED <<cliVars, cacheVars>>

(***************************************************************************)
(* compile.cli, lines 303 to 357: the constraints.                         *)
(***************************************************************************)
\* Line 345: the keys of the source lines that are not constraint-only.
primary_packages == {key_from_ireq(l) : l \in {x \in src_lines : ~x.constraint}}

AllowEveryUpgrade == UpgradeKeys

\* Line 349.
allowed_upgrades == primary_packages \cup existing_pins_to_upgrade

KeepConstraintAnyMarker(req) == TRUE

\* Lines 355 to 357: a constraint stays if it has no marker or its marker
\* evaluates to true.
KeepConstraint(req) == req.marker = NoMarker \/ MarkerEvaluate(req.marker, environment)

CollectedConstraints ==
    {r \in src_lines \cup {u \in upgrade_install_reqs : key_from_ireq(u) \in allowed_upgrades} :
        KeepConstraint(r)}

\* Lines 417 to 421: the markers handed to the writer, by key.
MarkersFor(C) == {<<key_from_ireq(r), r.marker>> : r \in {x \in C : x.marker # NoMarker}}

\* Line 377: clear_caches=args.rebuild.
ClearCaches == args.rebuild

\* Line 378: allow_unsafe=args.allow_unsafe.
AllowUnsafe == args.allow_unsafe

Collect ==
    /\ UNCHANGED syncVars
    /\ UNCHANGED utilVars
    /\ pc = "collect"
    /\ constraints' = CollectedConstraints
    /\ resolver' = [EmptyResolver EXCEPT !.known = CollectedConstraints,
                                         !.current_round = 1]
    /\ cache' = IF ClearCaches THEN CacheClear(cache) ELSE cache
    /\ pc' = "resolve"
    /\ UNCHANGED <<args, src_lines, output_file, index, environment, existing_pins,
                   existing_pins_to_upgrade, proxied, results, exit_code,
                   index_queries, pin_reuses>>
    /\ UNCHANGED <<cliVars, cache_log, cache_got>>

(***************************************************************************)
(* LocalRequirementsRepository (design 4.3) over the repository.           *)
(***************************************************************************)
\* find_best_match answers from an existing pin when the key has one.
ProxyHit(key) == proxied /\ existing_pins[key] # NoCandidate

\* find_best_match of the repository the Resolver holds: the existing pin
\* verbatim, else the wrapped repository's best match.
FindBestMatch(key, specifier) ==
    IF ProxyHit(key) THEN existing_pins[key]
    ELSE FakeFindBestMatch(index, key, specifier)

(***************************************************************************)
(* Resolver.resolve (design 4.4): one round is combine, select, expand,    *)
(* converge.                                                               *)
(***************************************************************************)
Keys(S) == {key_from_ireq(r) : r \in S}

OfKey(S, key) == {r \in S : key_from_ireq(r) = key}

\* A specifier set some version can meet.
Satisfiable(specifier) == \E v \in AnyVersion : Contains(specifier, v)

\* Every two requirements of the key that cannot be met together carry
\* mutually exclusive markers.
Isolated(S, key) ==
    \A r1, r2 \in OfKey(S, key) :
        ~Satisfiable(Specifier({r1, r2})) => MutuallyExclusive(r1.marker, r2.marker)

\* Step 1, combine: the requirements of one key form one group; a key whose
\* requirements conflict but are isolated by markers keeps one group a marker.
SplitByMarker(S, key) == ~Satisfiable(Specifier(OfKey(S, key))) /\ Isolated(S, key)

GroupOf(S, r) ==
    {x \in OfKey(S, key_from_ireq(r)) :
        SplitByMarker(S, key_from_ireq(r)) => x.marker = r.marker}

Groups(S) == {GroupOf(S, r) : r \in S}

GroupKey(G) == key_from_ireq(CHOOSE r \in G : TRUE)

\* Constraint-only unless some requirement of the group is a regular one.
GroupConstraint(G) == \A r \in G : r.constraint

\* A group no version can satisfy: IncompatibleRequirements.
Incompatible(G) == ~Satisfiable(Specifier(G))

\* Step 2, select: the best match of a group.
BestMatch(G) == Pin(GroupKey(G), FindBestMatch(GroupKey(G), Specifier(G)), GroupConstraint(G))

\* Step 4: the round counter exceeds max_rounds.
Exceeds(round, max_rounds) == round > max_rounds

ResolveMaxRoundsDefault == 10

\* Line 380: resolve(max_rounds=args.max_rounds).
ResolveMaxRounds == args.max_rounds

\* Step 3, expand: the dependencies of a best match, from the cache when it
\* holds them, else from the repository.
CacheKey(p) == <<p.key, p.ver>>

CacheHit(c, p) == CacheRead(c, CacheKey(p)).state = "ok"

Dependencies(c, p) ==
    IF CacheHit(c, p)
    THEN {[d EXCEPT !.constraint = p.constraint] : d \in CacheRead(c, CacheKey(p)).deps}
    ELSE GetDependencies(index, p)

\* ... and what the repository answered is written to the cache.
WriteMisses(c, pins) ==
    LET missed == {CacheKey(p) : p \in {x \in pins : ~CacheHit(c, x)}}
    IN  {e \in c : e.key \notin missed}
            \cup {Entry(k, "ok", IndexDeps(index, k[1], k[2])) : k \in missed}

\* The unsafe-package policy: the pins of the fixed unsafe set.
Unsafe(pinned) == {p \in pinned : p.key \in UNSAFE_PACKAGES}

\* The primary pinned result: unsafe pins left out unless allowed.
Requirements(pinned, allow_unsafe) ==
    IF allow_unsafe THEN pinned ELSE pinned \ Unsafe(pinned)

ResolveRound ==
    /\ UNCHANGED syncVars
    /\ UNCHANGED utilVars
    /\ pc = "resolve"
    /\ UNCHANGED <<cliVars, cache_log, cache_got>>
    /\ LET groups  == Groups(resolver.known)
           best    == {BestMatch(G) : G \in groups}
           fresh   == best \ resolver.expanded
           found   == UNION {Dependencies(cache, p) : p \in fresh}
           asked   == {GroupKey(G) : G \in groups}
           pinned  == {p \in best : ~p.constraint}
       IN  IF \E G \in groups : Incompatible(G)
           THEN /\ resolver' = [resolver EXCEPT !.error = "IncompatibleRequirements"]
                /\ pc' = "failed"
                /\ UNCHANGED <<results, index_queries, pin_reuses, cache>>
           ELSE /\ index_queries' = index_queries \cup {k \in asked : ~ProxyHit(k)}
                /\ pin_reuses' = pin_reuses \cup {k \in asked : ProxyHit(k)}
                /\ IF \E p \in best : p.ver = NoCandidate
                   THEN /\ resolver' = [resolver EXCEPT !.error = "NoCandidateFound"]
                        /\ pc' = "failed"
                        /\ UNCHANGED <<results, cache>>
                   ELSE IF found \subseteq resolver.known
                   THEN \* converged: the pinned result, constraint-only pins left out
                        /\ resolver' = [resolver EXCEPT !.best_matches = best,
                                                        !.expanded = @ \cup fresh,
                                                        !.unsafe_constraints = Unsafe(pinned)]
                        /\ results' = Requirements({p \in resolver'.best_matches : ~p.constraint},
                                                   AllowUnsafe)
                        /\ cache' = WriteMisses(cache, resolver'.expanded \ resolver.expanded)
                        /\ pc' = "resolved"
                   ELSE /\ resolver' =
                             [resolver EXCEPT
                                 !.best_matches = best,
                                 !.expanded = @ \cup fresh,
                                 !.known = @ \cup found,
                                 !.current_round = @ + 1,
                                 !.error = IF Exceeds(resolver.current_round + 1, ResolveMaxRounds)
                                           THEN "TooManyRounds" ELSE "none"]
                        /\ pc' = IF Exceeds(resolver.current_round + 1, ResolveMaxRounds)
                                 THEN "failed" ELSE "resolve"
                        /\ cache' = WriteMisses(cache, resolver'.expanded \ resolver.expanded)
                        /\ UNCHANGED results
    /\ UNCHANGED <<args, src_lines, output_file, index, environment, existing_pins,
                   existing_pins_to_upgrade, proxied, constraints, exit_code>>

\* Lines 385 to 387: a PipToolsError of the Resolver ends the run with status 2.
ExitOnError ==
    /\ UNCHANGED syncVars
    /\ UNCHANGED utilVars
    /\ pc = "failed"
    /\ exit_code' = 2
    /\ pc' = "exit"
    /\ UNCHANGED <<args, src_lines, output_file, index, environment, existing_pins,
                   existing_pins_to_upgrade, proxied, constraints, resolver, results,
                   index_queries, pin_reuses>>
    /\ UNCHANGED <<cliVars, cacheVars>>

CompileStep == Setup \/ Collect \/ ResolveRound \/ ExitOnError

NextCompile == CompileStep

SpecCompile == InitCompile /\ [][NextCompile]_vars

\* The runs followed to their end are those of one platform: the platform
\* enters a run only through the marker filter of lines 355 to 357, and
\* SpecCompile covers that filter on every platform.
InitCompileOnLinux == InitCompile /\ environment = "linux"

\* cli runs on one thread and takes its next step whenever it has one.
FairSpecCompile ==
    InitCompileOnLinux /\ [][NextCompile]_vars /\ WF_vars(NextCompile)

(***************************************************************************)
(* Claims about compile and the Resolver.                                  *)
(***************************************************************************)
\* resolve() has returned or raised.
ResolveEnded == pc \notin {"setup", "collect", "resolve"}

\* resolve() has returned its pinned set.
ResolveReturned ==
    \/ pc \in {"resolved", "hashed", "opened", "done"}
    \/ pc \in {"failed", "exit"} /\ resolver.error = "none" /\ resolver.best_matches # {}

ResolveFailed == resolver.error # "none"

\* C1, as claimed: every resolution ends in a pinned set or in TooManyRounds.
C1_FixedPointOrTooManyRounds ==
    ResolveEnded => (ResolveReturned \/ resolver.error = "TooManyRounds")

\* C1, amended: resolve always terminates, in a pinned set or in one of
\* IncompatibleRequirements, NoCandidateFound and TooManyRounds; it fails
\* with TooManyRounds exactly when the round counter exceeds max_rounds, so
\* the chain a -> b -> foo, which needs three rounds, ends in TooManyRounds
\* under every smaller max_rounds.
C1_Terminates ==
    /\ <>ResolveEnded
    /\ [](/\ resolver.error = "TooManyRounds" <=> resolver.current_round > args.max_rounds
          /\ ResolveEnded =>
                \/ ResolveReturned /\ ~ResolveFailed
                \/ resolver.error \in {"IncompatibleRequirements", "NoCandidateFound",
                                       "TooManyRounds"}
          /\ ( /\ ResolveEnded
               /\ index = "chain"
               /\ constraints = {Line("a", "any", 0, NoMarker, FALSE)}
               /\ args.max_rounds < 3 ) => resolver.error = "TooManyRounds")

\* C1 witness: the chain cut off by the round bound.
C1_Witness ==
    /\ index = "chain"
    /\ constraints = {Line("a", "any", 0, NoMarker, FALSE)}
    /\ resolver.error = "TooManyRounds"
    /\ resolver.current_round = args.max_rounds + 1

\* Pin q meets dependency line d.
Meets(q, d) == q.key = key_from_ireq(d) /\ Contains(Specifier({d}), q.ver)

\* C2: in a returned result every dependency the index declares for a pinned
\* package is pinned too, at a version its specifier admits.
C2_FixedPoint ==
    ResolveReturned =>
        \A p \in results : \A d \in GetDependencies(index, p) :
            \E q \in results : Meets(q, d)

\* Key k is pinned in the output file of a run that sets up the proxy.
PriorPin(k) ==
    /\ ~args.upgrade
    /\ output_file.exists
    /\ \E l \in PinnedOutputLines : key_from_ireq(l) = k

PriorVersion(k) == (CHOOSE l \in PinnedOutputLines : key_from_ireq(l) = k).ver

\* The input set is unchanged for k: the prior pin still meets every
\* requirement on k the resolution knows.
InputUnchanged(k) == Contains(Specifier(OfKey(resolver.known, k)), PriorVersion(k))

\* C3: without --upgrade, a package pinned in the prior output and not named
\* by --upgrade-package is never looked up in the wrapped repository, the
\* proxy answers with the existing pin, and a returned result that holds the
\* package holds it at the prior version.
C3_Reuse ==
    \A k \in Packages :
        (PriorPin(k) /\ k \notin args.upgrade_packages /\ pc # "setup" /\ InputUnchanged(k)) =>
            /\ k \notin index_queries
            /\ existing_pins[k] = PriorVersion(k)
            /\ (ResolveReturned /\ k \in Keys(resolver.known)) =>
                  /\ k \in pin_reuses
                  /\ \A p \in resolver.best_matches : p.key = k => p.ver = PriorVersion(k)

\* C3 witness: foo==1 is reused although the index offers foo==2.
C3_Witness ==
    /\ ResolveReturned
    /\ PriorPin("foo") /\ PriorVersion("foo") = 1
    /\ "foo" \notin args.upgrade_packages
    /\ InputUnchanged("foo")
    /\ Pin("foo", 1, FALSE) \in results
    /\ "foo" \in pin_reuses
    /\ FakeFindBestMatch(index, "foo", Specifier(OfKey(resolver.known, "foo"))) > 1

\* C4: the pin of an --upgrade-package key is never handed to the proxy, so
\* the proxy never answers for it and a result that holds the package was
\* matched by the wrapped repository.
C4_UpgradeOverride ==
    \A k \in args.upgrade_packages :
        /\ existing_pins[k] = NoCandidate
        /\ k \notin pin_reuses
        /\ (ResolveReturned /\ k \in Keys(resolver.known)) => k \in index_queries
        /\ (PriorPin(k) /\ pc # "setup") => k \in existing_pins_to_upgrade

\* C4 witness: foo==1 was pinned, foo is an upgrade target, and the index's
\* newer foo is selected.
C4_Witness ==
    /\ ResolveReturned
    /\ PriorPin("foo") /\ PriorVersion("foo") = 1
    /\ "foo" \in args.upgrade_packages
    /\ "foo" \in index_queries
    /\ \E p \in results : p.key = "foo" /\ p.ver > 1

\* The conflicting pair of C5, bare and isolated by markers.
PairBare == {Line("foo", ">", 1, NoMarker, FALSE), Line("foo", "<", 1, NoMarker, FALSE)}

PairMarked == {Line("foo", ">", 1, "linux", FALSE), Line("foo", "<", 1, "win32", FALSE)}

NoDependencies(ix, name) == \A v \in Versions : IndexDeps(ix, name, v) = {}

MaxSyncLines == 2

\* Lines the requirement files are drawn from: pins, as compile writes them.
SyncPool ==
    { Line("a", "==", 2, NoMarker, FALSE),
      Line("a", "==", 1, NoMarker, FALSE),
      Line("b", "==", 1, NoMarker, FALSE),
      Line("a", "==", 2, "linux", FALSE),
      Line("a", "==", 1, "win32", FALSE) }

\* Versions a package may be installed at before the run.
InstalledPool(k) ==
    CASE k = "a" -> {NotInstalled, 1, 2}
      [] k = "setuptools" -> {NotInstalled}
      [] OTHER -> {NotInstalled, 1}

\* The compile side while a sync run is looked at.
IdleCompile ==
    /\ args = DefaultArgs
    /\ FreshCli
    /\ FreshCache
    /\ out_path = NoName
    /\ disk = [exists |-> FALSE, lines |-> {}]
    /\ src_lines = {}
    /\ output_file = [exists |-> FALSE, lines |-> {}]
    /\ index = "chain"
    /\ pc = "idle"
    /\ existing_pins = [k \in Packages |-> NoCandidate]
    /\ existing_pins_to_upgrade = {}
    /\ proxied = FALSE
    /\ constraints = {}
    /\ resolver = EmptyResolver
    /\ results = {}
    /\ exit_code = NoExit
    /\ index_queries = {}
    /\ pin_reuses = {}

\* What a sync run is given: flags, the answer waiting on stdin, the lines of
\* the requirement files, the installed distributions and the platform.
SyncInputs ==
    /\ sync_args \in [ask : BOOLEAN, dry_run : BOOLEAN, force : BOOLEAN]
    /\ confirm_input \in {"y", "n"}
    /\ (~sync_args.ask => confirm_input = "n")
    /\ requirements \in UNION {[1..n -> SyncPool] : n \in 0..MaxSyncLines}
    /\ installed \in {f \in [Packages -> {NotInstalled, 1, 2}] :
                        \A k \in Packages : f[k] \in InstalledPool(k)}
    /\ environment \in Environments
    /\ sync_exit = NoExit
    /\ uncaught = "none"
    /\ merged = {}
    /\ to_install = {}
    /\ to_uninstall = {}
    /\ calls = <<>>

(***************************************************************************)
(* The sync command: scripts/sync.py, add_args and cli.                    *)
(***************************************************************************)
\* add_args, lines 22 to 83: the attributes of the namespace cli is given.
SyncNamespace ==
    {"ask", "dry_run", "force", "find_links", "index_url", "extra_index_url",
     "trusted_host", "no_index", "quiet", "user_only", "cert", "client_cert",
     "src_files", "pip_args"}

\* The attributes line 88 reads.
VerbosityAttributes == {"verbose", "quiet"}

InitSync ==
    /\ IdleCompile
    /\ IdleUtils
    /\ SyncInputs
    /\ src_files \in {<<>>, <<"requirements.txt">>, <<"requirements.in">>}
    /\ requirements_txt \in BOOLEAN
    /\ (src_files = <<"requirements.txt">> => requirements_txt)
    /\ ((src_files = <<>> /\ ~requirements_txt) => requirements = <<>>)
    /\ sync_pc = "cli"

\* cli, line 88: log.verbosity = args.verbose - args.quiet.  Reading an
\* attribute the namespace does not have raises AttributeError, which nothing
\* catches: the interpreter prints the traceback and exits with status 1.
\* Lines 90 to 150 run only after line 88 has returned.
SyncCli ==
    /\ UNCHANGED compileVars
    /\ UNCHANGED utilVars
    /\ sync_pc = "cli"
    /\ IF VerbosityAttributes \subseteq SyncNamespace
       THEN /\ sync_pc' = "files"
            /\ UNCHANGED <<sync_exit, uncaught>>
       ELSE /\ uncaught' = "AttributeError"
            /\ sync_exit' = 1
            /\ sync_pc' = "exit"
    /\ UNCHANGED <<sync_args, src_files, requirements_txt, requirements, installed,
                   confirm_input, merged, to_install, to_uninstall, calls>>

NextSync == SyncCli

SpecSync == InitSync /\ [][NextSync]_vars

(***************************************************************************)
(* piptools.sync: merge and diff (design 4.5).                             *)
(***************************************************************************)
\* What merge hands back: the merged set, or that it raised.
MergeResult(set, error) == [set |-> set, error |-> error]

\* The requirements are taken in order.  One requirement meets the entries of
\* its key merged so far: an entry whose marker is mutually exclusive with
\* its own is kept beside it; an entry it is compatible with is merged with
\* it into one (the lines are pins, so compatible lines carry one specifier;
\* the marker stays only if both carry it); an entry it conflicts with raises
\* IncompatibleRequirements, or, with ignore_conflicts, gives way to it.
RECURSIVE merge_from(_, _, _, _)
merge_from(acc, reqs, i, ignore_conflicts) ==
    IF i > Len(reqs) THEN MergeResult(acc, FALSE)
    ELSE LET r == reqs[i]
             same == OfKey(acc, key_from_ireq(r))
             kept == {e \in same : MutuallyExclusive(e.marker, r.marker)}
             rest == same \ kept
             conflicting == {e \in rest : ~Satisfiable(Specifier({e, r}))}
             joined == [r EXCEPT !.marker =
                            IF \A e \in rest \ conflicting : e.marker = r.marker
                            THEN r.marker ELSE NoMarker]
         IN  IF conflicting # {} /\ ~ignore_conflicts
             THEN MergeResult({}, TRUE)
             ELSE merge_from((acc \ rest) \cup {joined}, reqs, i + 1, ignore_conflicts)

merge(reqs, ignore_conflicts) == merge_from({}, reqs, 1, ignore_conflicts)

\* An installed distribution: key and exact version.
Dist(key, ver) == [key |-> key, ver |-> ver]

InstalledDistributions(I) ==
    {Dist(k, I[k]) : k \in {p \in Packages : I[p] # NotInstalled}}

\* Matching is by key, then by exact version.
Matches(dist, t) ==
    key_from_ireq(t) = dist.key /\ is_pinned_requirement(t) /\ t.ver = dist.ver

diff_to_uninstall_absent_only(T, I) ==
    {d \in InstalledDistributions(I) : d.key \notin Keys(T)}

\* diff: installed distributions no target entry matches.
diff_to_uninstall(T, I) ==
    {d \in InstalledDistributions(I) : ~\E t \in T : Matches(d, t)}

\* diff: target entries no installed distribution matches.
diff_to_install(T, I) ==
    {t \in T : ~\E d \in InstalledDistributions(I) : Matches(d, t)}

IgnoreConflictsNever == FALSE

\* sync.py, line 123: ignore_conflicts=args.force.
IgnoreConflicts == sync_args.force

\* sync.py, lines 122 to 126, as far as merge goes.
Merge ==
    /\ UNCHANGED compileVars
    /\ UNCHANGED utilVars
    /\ sync_pc = "merge"
    /\ LET m == merge(requirements, IgnoreConflicts)
       IN  IF m.error
           THEN /\ uncaught' = "IncompatibleRequirements"
                /\ sync_pc' = "raised"
                /\ UNCHANGED merged
           ELSE /\ merged' = m.set
                /\ sync_pc' = "diff"
                /\ UNCHANGED uncaught
    /\ UNCHANGED <<sync_args, src_files, requirements_txt, requirements, installed,
                   confirm_input, sync_exit, to_install, to_uninstall, calls>>

\* sync.py, lines 128 to 129.
Diff ==
    /\ UNCHANGED compileVars
    /\ UNCHANGED utilVars
    /\ sync_pc = "diff"
    /\ to_install' = diff_to_install(merged, installed)
    /\ to_uninstall' = diff_to_uninstall(merged, installed)
    /\ sync_pc' = "sync"
    /\ UNCHANGED <<sync_args, src_files, requirements_txt, requirements, installed,
                   confirm_input, sync_exit, uncaught, merged, calls>>

(***************************************************************************)
(* piptools.sync.sync (design 4.6), called as sync.py lines 142 to 150     *)
(* call it: report, confirm, then the two batches.                         *)
(***************************************************************************)
BatchOrderInstallFirst == <<"install", "uninstall">>

\* The two batches in the order they are invoked.
BatchOrder == <<"uninstall", "install">>

\* Where sync() stands before, during and after the batch of one operation.
Slot(op) == IF BatchOrder[1] = op THEN "batch1" ELSE "batch2"

Running(op) == IF BatchOrder[1] = op THEN "running1" ELSE "running2"

After(op) == IF BatchOrder[1] = op THEN "batch2" ELSE "returned"

\* sync() returns 0 once the second batch is through.
ExitAfter(op) == IF BatchOrder[1] = op THEN sync_exit ELSE 0

Event(op, ev) == [op |-> op, ev |-> ev]

\* The target entries the install operation acts on: the installer skips a
\* line whose marker is false on the platform.
Applicable(t) == t.marker = NoMarker \/ MarkerEvaluate(t.marker, environment)

\* Nothing to do returns 0; --ask reports and prompts; --dry-run reports and
\* returns 1; otherwise the plan is applied.
SyncEnter ==
    /\ UNCHANGED compileVars
    /\ UNCHANGED utilVars
    /\ sync_pc = "sync"
    /\ IF to_install = {} /\ to_uninstall = {}
       THEN sync_exit' = 0 /\ sync_pc' = "returned"
       ELSE IF sync_args.ask
       THEN sync_pc' = "confirm" /\ UNCHANGED sync_exit
       ELSE IF sync_args.dry_run
       THEN sync_exit' = 1 /\ sync_pc' = "returned"
       ELSE sync_pc' = "batch1" /\ UNCHANGED sync_exit
    /\ UNCHANGED <<sync_args, src_files, requirements_txt, requirements, installed,
                   confirm_input, uncaught, merged, to_install, to_uninstall, calls>>

\* The confirmation: accepted applies the plan, --dry-run or not; declined
\* returns 1.
SyncConfirm ==
    /\ UNCHANGED compileVars
    /\ UNCHANGED utilVars
    /\ sync_pc = "confirm"
    /\ IF confirm_input = "y"
       THEN sync_pc' = "batch1" /\ UNCHANGED sync_exit
       ELSE sync_exit' = 1 /\ sync_pc' = "returned"
    /\ UNCHANGED <<sync_args, src_files, requirements_txt, requirements, installed,
                   confirm_input, uncaught, merged, to_install, to_uninstall, calls>>

\* The uninstall operation is invoked, if there is anything to uninstall.
UninstallStart ==
    /\ UNCHANGED compileVars
    /\ UNCHANGED utilVars
    /\ sync_pc = Slot("uninstall")
    /\ IF to_uninstall = {}
       THEN /\ sync_pc' = After("uninstall")
            /\ sync_exit' = ExitAfter("uninstall")
            /\ UNCHANGED calls
       ELSE /\ sync_pc' = Running("uninstall")
            /\ calls' = Append(calls, Event("uninstall", "start"))
            /\ UNCHANGED sync_exit
    /\ UNCHANGED <<sync_args, src_files, requirements_txt, requirements, installed,
                   confirm_input, uncaught, merged, to_install, to_uninstall>>

\* The uninstall operation comes back: the named distributions are gone, or
\* it failed and left them (design 7: a failed batch is not applied).
UninstallEnd ==
    /\ UNCHANGED compileVars
    /\ UNCHANGED utilVars
    /\ sync_pc = Running("uninstall")
    /\ \E ok \in BOOLEAN :
          IF ok
          THEN /\ installed' = [k \in Packages |->
                                   IF \E d \in to_uninstall : d.key = k
                                   THEN NotInstalled ELSE installed[k]]
               /\ calls' = Append(calls, Event("uninstall", "end"))
               /\ sync_pc' = After("uninstall")
               /\ sync_exit' = ExitAfter("uninstall")
               /\ UNCHANGED uncaught
          ELSE /\ calls' = Append(calls, Event("uninstall", "failed"))
               /\ uncaught' = "CalledProcessError"
               /\ sync_pc' = "raised"
               /\ UNCHANGED <<installed, sync_exit>>
    /\ UNCHANGED <<sync_args, src_files, requirements_txt, requirements,
                   confirm_input, merged, to_install, to_uninstall>>

\* The install operation is invoked, if there is anything to install.
InstallStart ==
    /\ UNCHANGED compileVars
    /\ UNCHANGED utilVars
    /\ sync_pc = Slot("install")
    /\ IF to_install = {}
       THEN /\ sync_pc' = After("install")
            /\ sync_exit' = ExitAfter("install")
            /\ UNCHANGED calls
       ELSE /\ sync_pc' = Running("install")
            /\ calls' = Append(calls, Event("install", "start"))
            /\ UNCHANGED sync_exit
    /\ UNCHANGED <<sync_args, src_files, requirements_txt, requirements, installed,
                   confirm_input, uncaught, merged, to_install, to_uninstall>>

\* The install operation comes back: every applicable target entry is
\* installed at its version, or it failed and installed nothing.
InstallEnd ==
    /\ UNCHANGED compileVars
    /\ UNCHANGED utilVars
    /\ sync_pc = Running("install")
    /\ \E ok \in BOOLEAN :
          IF ok
          THEN /\ installed' = [k \in Packages |->
                                   IF \E t \in to_install : key_from_ireq(t) = k /\ Applicable(t)
                                   THEN (CHOOSE t \in to_install :
                                            key_from_ireq(t) = k /\ Applicable(t)).ver
                                   ELSE installed[k]]
               /\ calls' = Append(calls, Event("install", "end"))
               /\ sync_pc' = After("install")
               /\ sync_exit' = ExitAfter("install")
               /\ UNCHANGED uncaught
          ELSE /\ calls' = Append(calls, Event("install", "failed"))
               /\ uncaught' = "CalledProcessError"
               /\ sync_pc' = "raised"
               /\ UNCHANGED <<installed, sync_exit>>
    /\ UNCHANGED <<sync_args, src_files, requirements_txt, requirements,
                   confirm_input, merged, to_install, to_uninstall>>

\* merge, diff and sync called in turn on drawn inputs.
InitSyncPlan ==
    /\ IdleCompile
    /\ IdleUtils
    /\ SyncInputs
    /\ src_files = <<>>
    /\ requirements_txt = FALSE
    /\ sync_pc = "merge"

NextSyncPlan ==
    \/ Merge
    \/ Diff
    \/ SyncEnter
    \/ SyncConfirm
    \/ UninstallStart
    \/ UninstallEnd
    \/ InstallStart
    \/ InstallEnd

SpecSyncPlan == InitSyncPlan /\ [][NextSyncPlan]_vars

(***************************************************************************)
(* Claims about sync.                                                      *)
(***************************************************************************)
\* The command has no file to read.
NoInputFiles == src_files = <<>> /\ ~requirements_txt

\* Some input file has the .in extension.
DotIn == \E i \in DOMAIN src_files : src_files[i] = "requirements.in"

\* What merge makes of the requirement lines of the run.
Target == merge(requirements, sync_args.force)

\* The run is a usage or validation error.
UsageError == NoInputFiles \/ (DotIn /\ ~sync_args.force) \/ Target.error

\* The plan the run's inputs call for holds nothing.
PlanEmpty ==
    /\ diff_to_install(Target.set, installed) = {}
    /\ diff_to_uninstall(Target.set, installed) = {}

\* The flags and the answer let the plan be applied.
Permitted ==
    \/ ~sync_args.ask /\ ~sync_args.dry_run
    \/ sync_args.ask /\ confirm_input = "y"

\* Two lines of the files conflict and no marker isolates them.
Conflict == merge(requirements, FALSE).error

\* Two lines of the files conflict, and every such pair is isolated by
\* mutually exclusive markers.
MarkerIsolated ==
    /\ ~Conflict
    /\ \E i, j \in DOMAIN requirements :
          /\ key_from_ireq(requirements[i]) = key_from_ireq(requirements[j])
          /\ ~Satisfiable(Specifier({requirements[i], requirements[j]}))
          /\ MutuallyExclusive(requirements[i].marker, requirements[j].marker)

\* C6: the sync command, given files whose lines conflict without marker
\* isolation and no --force, exits with status 2 on the error merge raised,
\* with no plan computed and no operation invoked; given a conflict isolated
\* by markers it meets no error and goes on to the plan.
C6_MergeError ==
    (sync_pc = "exit" /\ ~NoInputFiles /\ ~DotIn) =>
        /\ (Conflict /\ ~sync_args.force) =>
              /\ sync_exit = 2
              /\ uncaught = "none"
              /\ to_install = {} /\ to_uninstall = {}
              /\ calls = <<>>
        /\ MarkerIsolated =>
              /\ uncaught = "none"
              /\ sync_exit \in {0, 1}

\* The versions the target set asks of key k.
TargetVersions(k) == {t.ver : t \in OfKey(merged, k)}

C8_UninstallBeforeInstall ==
    /\ \A i, j \in DOMAIN calls :
          (i < j /\ calls[i].op = "install") => calls[j].op = "install"
    /\ \A i \in DOMAIN calls :
          (calls[i] = Event("install", "start") /\ to_uninstall # {}) =>
              \E j \in 1..(i - 1) : calls[j] = Event("uninstall", "end")
    /\ \A i \in DOMAIN calls :
          (calls[i].ev = "start" /\ i < Len(calls)) =>
              (calls[i + 1].op = calls[i].op /\ calls[i + 1].ev # "start")
    /\ (sync_pc = "returned" /\ calls # <<>>) =>
          /\ \A t \in to_install : Applicable(t) => installed[key_from_ireq(t)] = t.ver
          /\ \A d \in to_uninstall : installed[d.key] # d.ver

\* C8 witness: both batches ran, and a package installed at version 1 is now
\* at version 2.
C8_Witness ==
    /\ sync_pc = "returned"
    /\ calls = <<Event("uninstall", "start"), Event("uninstall", "end"),
                 Event("install", "start"), Event("install", "end")>>
    /\ \E k \in Packages : Dist(k, 1) \in to_uninstall /\ installed[k] = 2

\* C9: the sync command exits with 2 on a usage or validation error, with 0
\* when the plan is empty or was applied, with 1 when the plan is pending
\* (dry-run or declined), and with no other status.
C9_ExitStatus ==
    sync_pc = "exit" =>
        /\ sync_exit \in {0, 1, 2}
        /\ UsageError => sync_exit = 2
        /\ (~UsageError /\ (PlanEmpty \/ Permitted)) => sync_exit = 0
        /\ (~UsageError /\ ~PlanEmpty /\ ~Permitted) => sync_exit = 1

\* C10: the sync command invokes no operation under --dry-run without --ask,
\* none when the confirmation is declined, none when the plan is empty, and
\* does invoke them when the confirmation is accepted, --dry-run or not.
C10_OnlyWhenPermitted ==
    sync_pc = "exit" =>
        /\ (sync_args.dry_run /\ ~sync_args.ask) => calls = <<>>
        /\ (sync_args.ask /\ confirm_input = "n") => calls = <<>>
        /\ (UsageError \/ PlanEmpty) => calls = <<>>
        /\ (~UsageError /\ ~PlanEmpty /\ sync_args.ask /\ confirm_input = "y") =>
              calls # <<>>

\* C17: given a file named *.in, the sync command without --force exits with
\* status 2 on a logged error, nothing merged, planned or invoked; with
\* --force it carries on, and a sync that is applied or has nothing to do
\* exits with status 0.
C17_DotInCheck ==
    (sync_pc = "exit" /\ DotIn) =>
        /\ ~sync_args.force =>
              /\ sync_exit = 2
              /\ uncaught = "none"
              /\ merged = {} /\ to_install = {} /\ to_uninstall = {}
              /\ calls = <<>>
        /\ (sync_args.force /\ (PlanEmpty \/ Permitted)) =>
              /\ sync_exit = 0
              /\ uncaught = "none"

(***************************************************************************)
(* compile.cli from its first line to its last: the output file name,      *)
(* resolution, the hashes, and the output file opened and written.         *)
(***************************************************************************)
\* Lines 200 to 212: the source files, the defaults of the current
\* directory when none is named; NoName where cli raises.
DefaultSrcFiles(given, dir) ==
    IF Len(given) # 0 THEN given
    ELSE IF RequirementsIn \in dir THEN <<RequirementsIn>>
    ELSE IF SetupPy \in dir THEN <<SetupPy>>
    ELSE <<>>

\* Lines 229 and 230: src_files[0].rsplit(".", 1)[0] + ".txt".
DerivedName(name) ==
    IF Len(name) <= 1 THEN name \o <<"txt">>
    ELSE SubSeq(name, 1, Len(name) - 1) \o <<"txt">>

\* Lines 214 to 236, where they do not raise: the name of the output file;
\* from stdin without --output-file only an error is logged and the name
\* stays empty.
OutputFileName(option, files) ==
    IF option # NoName THEN option
    ELSE IF files[1] = Stdin THEN NoName
    ELSE IF files[1] = SetupPy THEN RequirementsTxt
    ELSE DerivedName(files[1])

\* Lines 207 and 234 raise click.BadParameter, and click is no name of the
\* module: the raise statement ends in NameError.
RaisesBadParameter(option, given, dir) ==
    \/ DefaultSrcFiles(given, dir) = <<>>
    \/ option = NoName /\ Len(DefaultSrcFiles(given, dir)) > 1

DetermineOutput ==
    /\ UNCHANGED syncVars
    /\ UNCHANGED utilVars
    /\ pc = "start"
    /\ IF RaisesBadParameter(args.output_file, args.src_files, cwd)
       THEN /\ raised' = "NameError"
            /\ exit_code' = 1
            /\ pc' = "exit"
            /\ UNCHANGED out_path
       ELSE /\ out_path' = OutputFileName(args.output_file,
                                          DefaultSrcFiles(args.src_files, cwd))
            /\ pc' = "setup"
            /\ UNCHANGED <<raised, exit_code>>
    /\ UNCHANGED <<args, src_lines, output_file, index, environment,
                   existing_pins, existing_pins_to_upgrade, proxied, constraints,
                   resolver, results, index_queries, pin_reuses,
                   cwd, disk, hashes, cacheVars>>

\* FakeRepository.get_hashes: the same two hashes for every requirement.
FakeHashes == {"test:123", "sha256:0123456789abcdef"}

GenerateHashesAlways == TRUE

\* Line 381: if args.generate_hashes.
GenerateHashes == args.generate_hashes

\* Lines 381 to 384: resolve_hashes(results) under --generate-hashes; the
\* repository may fail a hash lookup with a PipToolsError.
ResolveHashes ==
    /\ UNCHANGED syncVars
    /\ UNCHANGED utilVars
    /\ pc = "resolved"
    /\ IF GenerateHashes
       THEN \E ok \in BOOLEAN :
              IF ok
              THEN /\ hashes' = [given |-> TRUE, of |-> {<<p, FakeHashes>> : p \in results},
                                 error |-> FALSE]
                   /\ pc' = "hashed"
              ELSE /\ hashes' = [NoHashes EXCEPT !.error = TRUE]
                   /\ pc' = "failed"
       ELSE /\ hashes' = NoHashes
            /\ pc' = "hashed"
    /\ UNCHANGED <<args, src_lines, output_file, index, environment,
                   existing_pins, existing_pins_to_upgrade, proxied, constraints,
                   resolver, results, exit_code, index_queries, pin_reuses,
                   cwd, out_path, disk, raised, cacheVars>>

OpensOutputAlsoOnFailure(at) == at \in {"hashed", "failed"}

\* Line 395 follows the try statement of lines 371 to 387: the output file
\* is opened once resolve and resolve_hashes have returned.
OpensOutput(at) == at = "hashed"

\* Line 395: open(output_file, "w+b") creates the file or empties it; with
\* no name (None) open raises TypeError.
OpenOutput ==
    /\ UNCHANGED syncVars
    /\ UNCHANGED utilVars
    /\ OpensOutput(pc)
    /\ IF out_path = NoName
       THEN /\ raised' = "TypeError"
            /\ exit_code' = 1
            /\ pc' = "exit"
            /\ UNCHANGED disk
       ELSE /\ disk' = [exists |-> TRUE, lines |-> {}]
            /\ pc' = "opened"
            /\ UNCHANGED <<raised, exit_code>>
    /\ UNCHANGED <<args, src_lines, output_file, index, environment,
                   existing_pins, existing_pins_to_upgrade, proxied, constraints,
                   resolver, results, index_queries, pin_reuses,
                   cwd, out_path, hashes, cacheVars>>

\* The lines the writer gives the pinned set.
PinLines(pins) == {Line(p.key, "==", p.ver, NoMarker, FALSE) : p \in pins}

\* Lines 396 to 426: the writer is handed dry_run and writes the pinned set
\* to the open file unless it is set ("Dry-run, so nothing updated."); cli
\* then returns.
WriteOutput ==
    /\ UNCHANGED syncVars
    /\ UNCHANGED utilVars
    /\ pc = "opened"
    /\ disk' = IF args.dry_run THEN disk
               ELSE [exists |-> TRUE, lines |-> PinLines(results)]
    /\ exit_code' = 0
    /\ pc' = "done"
    /\ UNCHANGED <<args, src_lines, output_file, index, environment,
                   existing_pins, existing_pins_to_upgrade, proxied, constraints,
                   resolver, results, index_queries, pin_reuses,
                   cwd, out_path, hashes, raised, cacheVars>>

\* Names given on the command line.
CliSrcFiles ==
    { <<>>, <<Stdin>>, <<SetupPy>>, <<RequirementsIn>>, << <<"base", "dev", "in">> >>,
      <<RequirementsIn, <<"dev", "in">> >> }

CliOutputFiles == {NoName, <<"out", "txt">>}

CliSrcLines ==
    { {Line("a", "any", 0, NoMarker, FALSE)},
      {Line("foo", "any", 0, NoMarker, FALSE)},
      {Line("foo", ">", 1, NoMarker, FALSE), Line("foo", "<", 1, NoMarker, FALSE)} }

InitCli ==
    /\ IdleSync
    /\ IdleUtils
    /\ FreshCache
    /\ hashes = NoHashes
    /\ raised = "none"
    /\ \E m \in 1..MaxRoundsArg, d \in BOOLEAN, g \in BOOLEAN,
          f \in CliSrcFiles, o \in CliOutputFiles :
          args = [DefaultArgs EXCEPT !.max_rounds = m, !.dry_run = d,
                                     !.generate_hashes = g, !.src_files = f,
                                     !.output_file = o]
    /\ cwd \in SUBSET {RequirementsIn, SetupPy}
    /\ (Len(args.src_files) # 0 => cwd = {})
    /\ src_lines \in CliSrcLines
    /\ output_file \in [exists : BOOLEAN, lines : SUBSET OutputPool]
    /\ (~output_file.exists => output_file.lines = {})
    /\ out_path = NoName
    /\ disk = output_file
    /\ index \in {"chain", "versioned"}
    /\ environment = "linux"
    /\ pc = "start"
    /\ existing_pins = [k \in Packages |-> NoCandidate]
    /\ existing_pins_to_upgrade = {}
    /\ proxied = FALSE
    /\ constraints = {}
    /\ resolver = EmptyResolver
    /\ results = {}
    /\ exit_code = NoExit
    /\ index_queries = {}
    /\ pin_reuses = {}

NextCli ==
    \/ DetermineOutput
    \/ Setup
    \/ Collect
    \/ ResolveRound
    \/ ResolveHashes
    \/ ExitOnError
    \/ OpenOutput
    \/ WriteOutput

SpecCli == InitCli /\ [][NextCli]_vars

\* resolve or resolve_hashes has raised a core error.
CoreError == resolver.error # "none" \/ hashes.error

\* C14: once resolve or resolve_hashes has failed with a core error the
\* output file is as the run found it (not created, emptied or written), and
\* the run ends with status 2.
C14_FailureLeavesOutput ==
    CoreError =>
        /\ disk = output_file
        /\ pc \in {"failed", "exit"}
        /\ pc = "exit" => exit_code = 2 /\ raised = "none"

\* C14 witness: a failed resolution has ended beside an output file that
\* holds its earlier pins.
C14_Witness ==
    /\ pc = "exit"
    /\ resolver.error = "TooManyRounds"
    /\ exit_code = 2
    /\ output_file.exists /\ output_file.lines # {}
    /\ disk = output_file

\* C16: after a --dry-run run whose resolution succeeded, an output file
\* that existed holds what it held before the run.
C16_DryRunChangesNothing ==
    (pc = "done" /\ args.dry_run /\ output_file.exists) => disk = output_file

\* Without --output-file the run has stdin or several files as its source.
NeedsOutputFile ==
    /\ args.output_file = NoName
    /\ \/ args.src_files = <<Stdin>>
       \/ Len(args.src_files) >= 2

\* C18: past the choice of the output file there is always an output file
\* name; a run from stdin or from several source files without
\* --output-file is rejected as a usage error and goes no further; from one
\* other source file the name is derived.
C18_OutputDetermined ==
    /\ pc \notin {"start", "exit"} => out_path # NoName
    /\ NeedsOutputFile /\ pc # "start" =>
          pc = "exit" /\ exit_code = 2 /\ raised = "none" /\ resolver = EmptyResolver
    /\ (pc \notin {"start", "exit"} /\ args.output_file = NoName) =>
          /\ args.src_files = <<SetupPy>> => out_path = RequirementsTxt
          /\ args.src_files = <<RequirementsIn>> => out_path = RequirementsTxt
          /\ args.src_files = << <<"base", "dev", "in">> >> =>
                out_path = <<"base", "dev", "txt">>

(***************************************************************************)
(* Resolutions over the scenario and the unsafe index, with a dependency   *)
(* cache that is empty, populated or corrupt when the run starts.          *)
(***************************************************************************)
\* Lines the source file is drawn from.
ResolvePool ==
    { Line("a", "any", 0, NoMarker, FALSE),
      Line("b", "any", 0, NoMarker, FALSE),
      Line("setuptools", "any", 0, NoMarker, FALSE) }

\* The cache an earlier run against the index left.
PopulatedCache(ix) == {Entry(k, "ok", IndexDeps(ix, k[1], k[2])) : k \in CacheKeys}

InitResolve ==
    /\ IdleSync
    /\ IdleUtils
    /\ FreshCli
    /\ \E m \in 1..MaxRoundsArg, u \in BOOLEAN, r \in BOOLEAN :
          args = [DefaultArgs EXCEPT !.max_rounds = m, !.allow_unsafe = u, !.rebuild = r]
    /\ src_lines \in (SUBSET ResolvePool) \ {{}}
    /\ output_file = [exists |-> FALSE, lines |-> {}]
    /\ out_path = RequirementsTxt
    /\ disk = output_file
    /\ index \in ScenarioIndexNames
    /\ environment = "linux"
    /\ cache \in {EmptyCache, CorruptCache, PopulatedCache(index)}
    /\ cache_log = <<>>
    /\ cache_got = NothingRead
    /\ pc = "setup"
    /\ existing_pins = [k \in Packages |-> NoCandidate]
    /\ existing_pins_to_upgrade = {}
    /\ proxied = FALSE
    /\ constraints = {}
    /\ resolver = EmptyResolver
    /\ results = {}
    /\ exit_code = NoExit
    /\ index_queries = {}
    /\ pin_reuses = {}

SpecResolve == InitResolve /\ [][NextCompile]_vars

\* The pinned set the last round selected.
Pinned == {p \in resolver.best_matches : ~p.constraint}

\* C11: at the end of a resolution every pin of setuptools, distribute or pip
\* is in unsafe_constraints, and it is in the returned requirements exactly
\* when allow_unsafe is set; the other pins are all returned. A source file
\* naming setuptools gives it in unsafe_constraints whatever allow_unsafe is.
C11_UnsafePartition ==
    ResolveReturned =>
        /\ \A p \in Pinned :
              IF p.key \in {"setuptools", "distribute", "pip"}
              THEN /\ p \in resolver.unsafe_constraints
                   /\ (p \in results <=> args.allow_unsafe)
              ELSE p \in results
        /\ results \subseteq Pinned
        /\ (\E l \in constraints : key_from_ireq(l) = "setuptools") =>
              \E p \in resolver.unsafe_constraints : p.key = "setuptools"

\* C11 witness: setuptools pinned, reported as unsafe and left out of the
\* requirements.
C11_Witness ==
    /\ ResolveReturned
    /\ ~args.allow_unsafe
    /\ \E p \in resolver.unsafe_constraints : p.key = "setuptools" /\ p \notin results
    /\ \E p \in results : p.key = "a"

(***************************************************************************)
(* A client of the DependencyCache: writes, clears and reads in any order. *)
(***************************************************************************)
\* Operations of one client.
MaxCacheOps == 3

\* Keys and dependency lists the client uses.
CachePoolKeys == {<<"a", 1>>, <<"foo", 2>>}

CachePoolDeps == {{}, {Line("foo", ">=", 1, NoMarker, FALSE)}}

InitCache ==
    /\ IdleSync
    /\ IdleUtils
    /\ IdleCompile
    /\ environment = "linux"

CacheWriteOp ==
    /\ UNCHANGED syncVars
    /\ UNCHANGED utilVars
    /\ pc = "idle"
    /\ Len(cache_log) < MaxCacheOps
    /\ \E k \in CachePoolKeys, deps \in CachePoolDeps :
          /\ cache' = CacheWrite(cache, k, deps)
          /\ cache_log' = Append(cache_log, [op |-> "write", key |-> k, deps |-> deps])
    /\ UNCHANGED <<args, src_lines, output_file, index, environment, pc,
                   existing_pins, existing_pins_to_upgrade, proxied, constraints,
                   resolver, results, exit_code, index_queries, pin_reuses,
                   cliVars, cache_got>>

CacheClearOp ==
    /\ UNCHANGED syncVars
    /\ UNCHANGED utilVars
    /\ pc = "idle"
    /\ Len(cache_log) < MaxCacheOps
    /\ cache' = CacheClear(cache)
    /\ cache_log' = Append(cache_log, [op |-> "clear", key |-> <<>>, deps |-> {}])
    /\ UNCHANGED <<args, src_lines, output_file, index, environment, pc,
                   existing_pins, existing_pins_to_upgrade, proxied, constraints,
                   resolver, results, exit_code, index_queries, pin_reuses,
                   cliVars, cache_got>>

CacheReadOp ==
    /\ UNCHANGED syncVars
    /\ UNCHANGED utilVars
    /\ pc = "idle"
    /\ \E k \in CachePoolKeys :
          cache_got' = [key |-> k, got |-> CacheRead(cache, k), at |-> Len(cache_log)]
    /\ UNCHANGED <<args, src_lines, output_file, index, environment, pc,
                   existing_pins, existing_pins_to_upgrade, proxied, constraints,
                   resolver, results, exit_code, index_queries, pin_reuses,
                   cliVars, cache, cache_log>>

NextCache == CacheWriteOp \/ CacheClearOp \/ CacheReadOp

SpecCache == InitCache /\ [][NextCache]_vars

\* What the operations ops leave for key k: the dependencies of the last
\* write of k after the last clear, a miss when there is none.
RECURSIVE LastWrite(_, _)
LastWrite(ops, k) ==
    IF ops = <<>> THEN Miss
    ELSE LET last == ops[Len(ops)]
         IN  IF last.op = "clear" THEN Miss
             ELSE IF last.key = k THEN [state |-> "ok", deps |-> last.deps]
             ELSE LastWrite(SubSeq(ops, 1, Len(ops) - 1), k)

\* C12: after any sequence of writes and clears, read(k) returns the value of
\* the last write of k since the last clear, and misses when there is none.
C12_ReadLastWrite ==
    /\ \A k \in CachePoolKeys : CacheRead(cache, k) = LastWrite(cache_log, k)
    /\ cache_got.key # <<>> =>
          cache_got.got = LastWrite(SubSeq(cache_log, 1, cache_got.at), cache_got.key)

\* C12 witness: a key written, cleared and written again with another value
\* reads as the second value.
C12_Witness ==
    /\ Len(cache_log) = 3
    /\ cache_log[1].op = "write" /\ cache_log[2].op = "clear"
    /\ cache_log[3].op = "write" /\ cache_log[3].key = cache_log[1].key
    /\ cache_log[3].deps # cache_log[1].deps
    /\ cache_got = [key |-> cache_log[3].key,
                    got |-> [state |-> "ok", deps |-> cache_log[3].deps], at |-> 3]

\* The scenario: constraints [X], X depends on Y>=1, the index offers X==1,
\* Y==1 and Y==2; X is a and Y is foo.
Scenario ==
    /\ index = "scenario"
    /\ constraints = {Line("a", "any", 0, NoMarker, FALSE)}

\* C19: a round ends the resolution with success exactly when it introduces
\* no requirement the resolver did not know, and a round that does introduce
\* one starts another round instead; on the scenario the result is
\* {X==1, Y==2}, returned in round 2.
C19_TwoRounds ==
    /\ []((Scenario /\ ResolveReturned) =>
            /\ results = {Pin("a", 1, FALSE), Pin("foo", 2, FALSE)}
            /\ resolver.current_round = 2)
    /\ []((Scenario /\ resolver.current_round = 1) => ~ResolveReturned)
    /\ [][pc = "resolve" =>
            /\ pc' = "resolved" =>
                  /\ resolver'.known = resolver.known
                  /\ resolver'.current_round = resolver.current_round
            /\ resolver'.known # resolver.known =>
                  /\ pc' # "resolved"
                  /\ resolver'.current_round = resolver.current_round + 1]_vars

\* C19 witness: the scenario resolved in its second round.
C19_Witness ==
    /\ Scenario
    /\ pc = "resolved"
    /\ resolver.current_round = 2
    /\ Pin("foo", 2, FALSE) \in results

\* C20: whatever the cache held when the run started (nothing, the entries of
\* an earlier run, or entries that cannot be read), the requirements the
\* resolver knows are the constraints and what the repository declares for
\* the pins it expanded; no error other than the resolver's own ends the run;
\* and the scenario gives {X==1, Y==2}.
C20_CorruptCacheIsMiss ==
    /\ resolver.known =
          constraints \cup UNION {GetDependencies(index, p) : p \in resolver.expanded}
    /\ raised = "none"
    /\ resolver.error \in {"none", "IncompatibleRequirements", "NoCandidateFound",
                            "TooManyRounds"}
    /\ (Scenario /\ ResolveReturned) =>
          results = {Pin("a", 1, FALSE), Pin("foo", 2, FALSE)}

\* C20 witness: the scenario resolved over a cache whose entries could not be
\* read; the entry of X==1 has been written anew, others are still corrupt.
C20_Witness ==
    /\ Scenario
    /\ ResolveReturned
    /\ ~args.rebuild
    /\ \E e \in cache : e.state = "corrupt"
    /\ Entry(<<"a", 1>>, "ok", IndexDeps(index, "a", 1)) \in cache
    /\ results = {Pin("a", 1, FALSE), Pin("foo", 2, FALSE)}

\* Repository.get_hashes has been called: resolve_hashes has returned the
\* hashes or has failed in a lookup.
HashLookup == hashes.given \/ hashes.error

\* C21: a hash lookup has happened only under --generate-hashes, only once
\* resolve has returned without error, and only for requirements of the
\* returned pinned set; during the rounds and after a failed resolution
\* there is none.
C21_HashesAfterFixedPoint ==
    /\ HashLookup =>
          /\ args.generate_hashes
          /\ resolver.error = "none"
          /\ pc \in {"hashed", "opened", "done", "failed", "exit"}
          /\ \A h \in hashes.of : h[1] \in results
    /\ pc \in {"start", "setup", "collect", "resolve", "resolved"} => ~HashLookup
    /\ resolver.error # "none" => ~HashLookup

\* C21 witness: the hashes of a returned pinned set have been looked up.
C21_Witness ==
    /\ pc = "hashed"
    /\ hashes.given
    /\ results # {}
    /\ {h[1] : h \in hashes.of} = results

\* Lines i < j are the only two lines of their key, they conflict and no
\* marker isolates them.
ConflictingPair(i, j) ==
    /\ i < j
    /\ key_from_ireq(requirements[i]) = key_from_ireq(requirements[j])
    /\ \A n \in DOMAIN requirements :
          key_from_ireq(requirements[n]) = key_from_ireq(requirements[i]) => n \in {i, j}
    /\ ~Satisfiable(Specifier({requirements[i], requirements[j]}))
    /\ ~MutuallyExclusive(requirements[i].marker, requirements[j].marker)

\* C22: with ignore_conflicts set, merge raises nothing, and of two
\* conflicting lines of one key that no marker isolates the merged set holds
\* the later one and not the earlier.
C22_LaterSourceWins ==
    (sync_args.force /\ sync_pc # "merge") =>
        /\ uncaught # "IncompatibleRequirements"
        /\ \A i, j \in DOMAIN requirements :
              ConflictingPair(i, j) =>
                  OfKey(merged, key_from_ireq(requirements[j])) = {requirements[j]}

\* C22 witness: a==2 then a==1 merged under ignore_conflicts.
C22_Witness ==
    /\ sync_args.force
    /\ sync_pc = "diff"
    /\ Len(requirements) >= 2
    /\ ConflictingPair(1, 2)
    /\ requirements[1] = Line("a", "==", 2, NoMarker, FALSE)
    /\ merged = {Line("a", "==", 1, NoMarker, FALSE)}

(***************************************************************************)
(* scripts/sync.py, _compose_install_flags: the flags handed to pip        *)
(* install, as a list of words.                                            *)
(***************************************************************************)
\* Longest list of index URLs tried, for the finder and for the command line.
MaxUrls == 2

\* repositories.PyPIRepository.DEFAULT_INDEX_URL.
DEFAULT_INDEX_URL == "https://pypi.org/simple"
Urls == {DEFAULT_INDEX_URL, "https://example.com", "https://foo"}

\* A list argument: None (the default of the signature) or a list.
None == [is_none |-> TRUE, items |-> <<>>]
List(items) == [is_none |-> FALSE, items |-> items]

\* result.extend([flag, x]) for each x of items, in order.
ExtendEach(flag, items) ==
    [i \in 1..(2 * Len(items)) |-> IF i % 2 = 1 THEN flag ELSE items[(i + 1) \div 2]]

Tail1(items) == IF items = <<>> THEN <<>> ELSE Tail(items)

IndexFlagsKeepDefault(finder, no_index, index_url) ==
    IF no_index THEN <<"--no-index">>
    ELSE IF index_url # "" THEN <<"--index-url", index_url>>
    ELSE IF finder.index_urls # <<>>
         THEN <<"--index-url", finder.index_urls[1]>>
              \o ExtendEach("--extra-index-url", Tail1(finder.index_urls))
    ELSE <<"--no-index">>

\* Lines 169-181: --no-index, else the --index-url of the command line (None
\* and "" are both false), else the index URLs of the finder, else --no-index.
IndexFlags(finder, no_index, index_url) ==
    IF no_index THEN <<"--no-index">>
    ELSE IF index_url # "" THEN <<"--index-url", index_url>>
    ELSE IF finder.index_urls # <<>>
         THEN (IF finder.index_urls[1] # DEFAULT_INDEX_URL
               THEN <<"--index-url", finder.index_urls[1]>> ELSE <<>>)
              \o ExtendEach("--extra-index-url", Tail1(finder.index_urls))
    ELSE <<"--no-index">>

\* Lines 194-201: --no-binary / --only-binary with the sorted formats joined
\* by commas; the format sets of the model hold at most one format.
FormatFlags(format_control) ==
    (IF format_control.no_binary = {} THEN <<>>
     ELSE <<"--no-binary", CHOOSE f \in format_control.no_binary : TRUE>>)
    \o (IF format_control.only_binary = {} THEN <<>>
        ELSE <<"--only-binary", CHOOSE f \in format_control.only_binary : TRUE>>)

\* Lines 153-212.  Iterating a list argument left at None raises TypeError.
compose_install_flags(finder, a) ==
    IF a.extra_index_url.is_none \/ a.trusted_host.is_none \/ a.find_links.is_none
    THEN [raised |-> "TypeError"]
    ELSE [raised |-> "none",
          value |->
              IndexFlags(finder, a.no_index, a.index_url)
              \o ExtendEach("--extra-index-url", a.extra_index_url.items)
              \o ExtendEach("--trusted-host", a.trusted_host.items \o finder.trusted_hosts)
              \o ExtendEach("--find-links", a.find_links.items \o finder.find_links)
              \o FormatFlags(finder.format_control)
              \o (IF a.user_only THEN <<"--user">> ELSE <<>>)
              \o (IF a.cert # "" THEN <<"--cert", a.cert>> ELSE <<>>)
              \o (IF a.client_cert # "" THEN <<"--client-cert", a.client_cert>> ELSE <<>>)]

UrlLists == UNION {[1..n -> Urls] : n \in 0..MaxUrls}

\* What the finder collected besides index URLs, and the other options.
FinderRest ==
    {[trusted_hosts |-> <<>>, find_links |-> <<>>,
      format_control |-> [no_binary |-> {}, only_binary |-> {}]],
     [trusted_hosts |-> <<"example.com">>, find_links |-> <<"./libs1">>,
      format_control |-> [no_binary |-> {":all:"}, only_binary |-> {}]],
     [trusted_hosts |-> <<>>, find_links |-> <<>>,
      format_control |-> [no_binary |-> {}, only_binary |-> {":all:"}]]}

OtherFlags ==
    {[trusted_host |-> List(<<>>), find_links |-> List(<<>>), user_only |-> FALSE,
      cert |-> "", client_cert |-> ""],
     [trusted_host |-> List(<<"foo">>), find_links |-> List(<<"./libs2">>),
      user_only |-> TRUE, cert |-> "foo.crt", client_cert |-> "foo.pem"],
     [trusted_host |-> None, find_links |-> None, user_only |-> FALSE,
      cert |-> "", client_cert |-> ""]}

ComposeCalls ==
    {[fn |-> "_compose_install_flags",
      finder |-> [index_urls |-> f, trusted_hosts |-> fr.trusted_hosts,
                  find_links |-> fr.find_links, format_control |-> fr.format_control],
      no_index |-> n, index_url |-> u, extra_index_url |-> e,
      trusted_host |-> o.trusted_host, find_links |-> o.find_links,
      user_only |-> o.user_only, cert |-> o.cert, client_cert |-> o.client_cert] :
        f \in UrlLists, fr \in FinderRest, n \in BOOLEAN, u \in Urls \cup {""},
        e \in {List(x) : x \in UrlLists} \cup {None}, o \in OtherFlags}

InitCompose ==
    /\ IdleSync
    /\ IdleCompile
    /\ environment = "linux"
    /\ call \in ComposeCalls
    /\ ret = Pending
    /\ log = LogContext(DefaultIndentWidth)

ComposeInstallFlags ==
    /\ UNCHANGED compileVars
    /\ UNCHANGED syncVars
    /\ call.fn = "_compose_install_flags"
    /\ ret = Pending
    /\ ret' = compose_install_flags(call.finder, call)
    /\ UNCHANGED <<call, log>>

NextCompose == ComposeInstallFlags

SpecCompose == InitCompose /\ [][NextCompose]_vars

\* The places of word w in a list of words.
Places(words, w) == {i \in 1..Len(words) : words[i] = w}

Prefix(words, n) == SubSeq(words, 1, IF n < Len(words) THEN n ELSE Len(words))

\* C23: whenever _compose_install_flags returns, the index flags follow the
\* precedence --no-index, then the --index-url of the command line, then the
\* finder's index URLs (the first as --index-url unless it is the default
\* index URL, the others as --extra-index-url in order), then --no-index; the
\* result never holds both --no-index and --index-url, holds at most one
\* --index-url, and never names the default index URL as the finder's
\* --index-url.
C23_IndexPrecedence ==
    (call.fn = "_compose_install_flags" /\ ret # Pending /\ ret.raised = "none") =>
        LET r == ret.value
            f == call.finder.index_urls
            fromFinder == ~call.no_index /\ call.index_url = "" /\ f # <<>>
        IN  /\ call.no_index => r[1] = "--no-index"
            /\ (~call.no_index /\ call.index_url # "") =>
                  Prefix(r, 2) = <<"--index-url", call.index_url>>
            /\ (fromFinder /\ f[1] # DEFAULT_INDEX_URL) =>
                  Prefix(r, 2 * Len(f)) =
                      <<"--index-url", f[1]>> \o ExtendEach("--extra-index-url", Tail(f))
            /\ (fromFinder /\ f[1] = DEFAULT_INDEX_URL) =>
                  Prefix(r, 2 * Len(f) - 2) = ExtendEach("--extra-index-url", Tail(f))
            /\ (~call.no_index /\ call.index_url = "" /\ f = <<>>) => r[1] = "--no-index"
            /\ ~(Places(r, "--no-index") # {} /\ Places(r, "--index-url") # {})
            /\ Cardinality(Places(r, "--index-url")) <= 1
            /\ fromFinder =>
                  \A i \in Places(r, "--index-url") : r[i + 1] # DEFAULT_INDEX_URL

C23_Witness ==
    /\ call.fn = "_compose_install_flags"
    /\ ~call.no_index
    /\ call.index_url = ""
    /\ call.finder.index_urls = <<DEFAULT_INDEX_URL, "https://foo">>
    /\ call.extra_index_url = List(<<"https://example.com">>)
    /\ ret # Pending
    /\ ret.raised = "none"
    /\ Prefix(ret.value, 4) = <<"--extra-index-url", "https://foo",
                                "--extra-index-url", "https://example.com">>

(***************************************************************************)
(* utils.py on requirements as pip hands them over: is_pinned_requirement, *)
(* key_from_req, as_tuple.  A name is its characters in order, a version   *)
(* its dot-separated parts in order.                                       *)
(***************************************************************************)
\* Longest package name tried, and most clauses in one specifier.
MaxNameLen == 2
MaxClauses == 2

Chars == {"A", "a", "_", "-"}
Names == UNION {[1..n -> Chars] : n \in 1..MaxNameLen}

\* str.lower() and str.replace("_", "-"), character by character.
Lower(text) == [i \in DOMAIN text |-> IF text[i] = "A" THEN "a" ELSE text[i]]
Replace(text) == [i \in DOMAIN text |-> IF text[i] = "_" THEN "-" ELSE text[i]]

\* What key_from_req is given: a pkg_resources Distribution, whose key is its
\* project name in lowercase, or a packaging Requirement.
Distribution(project_name) == [kind |-> "Distribution", name |-> project_name]
Requirement(name) == [kind |-> "Requirement", name |-> name]

KeyFromReqDistributionAsIs(req) ==
    IF req.kind = "Distribution" THEN Lower(req.name) ELSE Lower(Replace(req.name))

\* utils.py, lines 50-61.
key_from_req(req) ==
    LET key == IF req.kind = "Distribution" THEN Lower(req.name) ELSE req.name
    IN  Lower(Replace(key))

\* Versions of a clause: 1.0 and 1.* .
ExactVersion == <<"1", "0">>
WildcardVersion == <<"1", "*">>
Operators == {"==", "===", ">=", "!="}
\* The clauses packaging accepts: a trailing .* goes with ==, != and, as any
\* text does, with ===.
Clauses ==
    {[operator |-> o, version |-> v] :
        o \in Operators, v \in {ExactVersion, WildcardVersion}}
    \ {[operator |-> ">=", version |-> WildcardVersion]}

\* version.endswith(".*").
EndsWithWildcard(version) == Len(version) >= 2 /\ version[Len(version)] = "*"

\* An InstallRequirement: has_req is req is not None; extras as written.
Ireq(name, editable, has_req, specifier, extras) ==
    [name |-> name, editable |-> editable, has_req |-> has_req,
     specifier |-> specifier, extras |-> extras]

\* utils.py, lines 129-153: not editable, a req with exactly one clause,
\* whose operator is == or === and whose version does not end in .* .
pinned(ireq) ==
    IF ireq.editable THEN FALSE
    ELSE IF ~ireq.has_req \/ Cardinality(ireq.specifier) # 1 THEN FALSE
    ELSE LET spec == CHOOSE c \in ireq.specifier : TRUE
         IN  spec.operator \in {"==", "==="} /\ ~EndsWithWildcard(spec.version)

\* sorted() of a set of extras: the extras of the model in alphabetical order.
ExtraOrder == <<"dev", "test">>
Sorted(extras) == SelectSeq(ExtraOrder, LAMBDA x : x \in extras)
ExtrasAsWritten == {<<>>, <<"dev">>, <<"dev", "test">>, <<"test", "dev">>}
Range(f) == {f[i] : i \in DOMAIN f}

\* utils.py, lines 156-167.
as_tuple(ireq) ==
    IF ~pinned(ireq) THEN [raised |-> "TypeError"]
    ELSE [raised |-> "none",
          value |-> <<key_from_req(Requirement(ireq.name)),
                      (CHOOSE c \in ireq.specifier : TRUE).version,
                      Sorted(Range(ireq.extras))>>]

Specifiers == {S \in SUBSET Clauses : Cardinality(S) <= MaxClauses}

PinnedCalls ==
    {[fn |-> "is_pinned_requirement", ireq |-> Ireq(<<"a">>, e, TRUE, S, <<>>)] :
        e \in BOOLEAN, S \in Specifiers}
    \cup {[fn |-> "is_pinned_requirement", ireq |-> Ireq(<<"a">>, e, FALSE, {}, <<>>)] :
        e \in BOOLEAN}

KeyCalls ==
    {[fn |-> "key_from_req", req |-> r] :
        r \in {Distribution(n) : n \in Names} \cup {Requirement(n) : n \in Names}}

TupleCalls ==
    {[fn |-> "as_tuple", ireq |-> Ireq(n, e, TRUE, S, x)] :
        n \in Names, e \in BOOLEAN,
        S \in {S \in Specifiers : Cardinality(S) <= 1}, x \in ExtrasAsWritten}

InitUtils ==
    /\ IdleSync
    /\ IdleCompile
    /\ environment = "linux"
    /\ call \in PinnedCalls \cup KeyCalls \cup TupleCalls
    /\ ret = Pending
    /\ log = LogContext(DefaultIndentWidth)

IsPinnedRequirement ==
    /\ UNCHANGED compileVars
    /\ UNCHANGED syncVars
    /\ call.fn = "is_pinned_requirement"
    /\ ret = Pending
    /\ ret' = [raised |-> "none", value |-> pinned(call.ireq)]
    /\ UNCHANGED <<call, log>>

KeyFromReq ==
    /\ UNCHANGED compileVars
    /\ UNCHANGED syncVars
    /\ call.fn = "key_from_req"
    /\ ret = Pending
    /\ ret' = [raised |-> "none", value |-> key_from_req(call.req)]
    /\ UNCHANGED <<call, log>>

AsTuple ==
    /\ UNCHANGED compileVars
    /\ UNCHANGED syncVars
    /\ call.fn = "as_tuple"
    /\ ret = Pending
    /\ ret' = as_tuple(call.ireq)
    /\ UNCHANGED <<call, log>>

NextUtils == IsPinnedRequirement \/ KeyFromReq \/ AsTuple

SpecUtils == InitUtils /\ [][NextUtils]_vars

\* Pinned as the documentation of is_pinned_requirement and the design state
\* it: not editable, exactly one specifier, operator ==, no wildcard in the
\* version.
HasWildcard(version) == \E i \in DOMAIN version : version[i] = "*"
DocumentedPinned(ireq) ==
    /\ ~ireq.editable
    /\ ireq.has_req
    /\ Cardinality(ireq.specifier) = 1
    /\ \A c \in ireq.specifier : c.operator = "==" /\ ~HasWildcard(c.version)

\* C24: is_pinned_requirement(ireq) is true exactly when ireq is not
\* editable, has exactly one specifier, that specifier's operator is == and
\* its version holds no wildcard; it is false for every other requirement.
C24_PinnedExactly ==
    (call.fn = "is_pinned_requirement" /\ ret # Pending) =>
        ret.value = DocumentedPinned(call.ireq)

\* Two names that differ at most in case and in '_' against '-'.
Fold(c) == IF c = "A" THEN "a" ELSE IF c = "_" THEN "-" ELSE c
SameName(n, m) == Len(n) = Len(m) /\ \A i \in DOMAIN n : Fold(n[i]) = Fold(m[i])

\* Two requirements that ask for the same thing: same name up to case and
\* '_'/'-', same specifier, same extras in any order.
Equivalent(i, j) ==
    /\ SameName(i.name, j.name)
    /\ i.editable = j.editable
    /\ i.specifier = j.specifier
    /\ Range(i.extras) = Range(j.extras)

ExistingPinKeys == {k \in Packages : existing_pins[k] # NoCandidate}

\* C26: once cli is past the proxy set-up, without --upgrade and with an
\* existing output file every pinned line of that file has its key in
\* exactly one of existing_pins and existing_pins_to_upgrade, in the second
\* exactly when it is an --upgrade-package key, and the keys of the two come
\* from pinned lines only; with --upgrade or without an output file there is
\* no proxy and both are empty.
C26_PinsPartitioned ==
    pc \notin {"idle", "start", "setup"} =>
        IF ~args.upgrade /\ output_file.exists
        THEN /\ proxied
             /\ \A l \in output_file.lines :
                   l.op \in {"==", "==="} =>
                      /\ (l.name \in existing_pins_to_upgrade) = (l.name \in args.upgrade_packages)
                      /\ (l.name \in ExistingPinKeys) = (l.name \notin args.upgrade_packages)
                      /\ l.name \in ExistingPinKeys => existing_pins[l.name] = l.ver
             /\ ExistingPinKeys \cap existing_pins_to_upgrade = {}
             /\ \A k \in ExistingPinKeys \cup existing_pins_to_upgrade :
                   \E l \in output_file.lines : l.name = k /\ l.op \in {"==", "==="}
        ELSE /\ ~proxied
             /\ ExistingPinKeys = {}
             /\ existing_pins_to_upgrade = {}

C26_Witness ==
    /\ pc = "collect"
    /\ proxied
    /\ output_file.lines = OutputPool
    /\ args.upgrade_packages = {"foo"}
    /\ existing_pins_to_upgrade = {"foo"}
    /\ ExistingPinKeys = {}

\* The requirement --upgrade-package p stands for (line 266).
UpgradeReq(p) == Line(p, "any", 0, NoMarker, FALSE)

\* C27: once the constraints are collected, the requirement of an
\* --upgrade-package is among them only if its key is a primary package of
\* the source files or the key of an existing pin selected for upgrade (one
\* that is neither is left out), and every constraint handed to the Resolver
\* has no marker or a marker that is true on the running platform.
C27_UpgradeConstraints ==
    pc \notin {"idle", "start", "setup", "collect"} =>
        /\ \A p \in args.upgrade_packages :
              UpgradeReq(p) \in constraints =>
                 \/ \E l \in src_lines : ~l.constraint /\ l.name = p
                 \/ p \in existing_pins_to_upgrade
        /\ \A c \in constraints :
              c.marker = NoMarker \/ c.marker = environment

C27_Witness ==
    /\ pc = "resolve"
    /\ args.upgrade_packages = {"foo"}
    /\ \A l \in src_lines : l.name # "foo"
    /\ existing_pins_to_upgrade = {"foo"}
    /\ UpgradeReq("foo") \in constraints
    /\ src_lines # {}

(***************************************************************************)
(* logging.py, LogContext: indentation() scopes, nested, each left by the  *)
(* end of its body or by an exception passing through it.                  *)
(***************************************************************************)
\* Deepest nesting, most steps and widest indent tried.
MaxScopes == 3
MaxLogOps == 5
MaxIndentWidth == 2

\* Lines 51-52 and 54-55.
Indent(ctx) == ctx.current_indent + ctx.indent_width
Dedent(ctx) == ctx.current_indent - ctx.indent_width

LeaveWithoutFinally(ctx, by_exception) ==
    IF by_exception THEN ctx.current_indent ELSE Dedent(ctx)

\* Lines 62-66, try: yield finally: self._dedent(): current_indent after the
\* body of the scope has ended, normally or by an exception.
Leave(ctx, by_exception) == Dedent(ctx)

LogEvent(op, before, after) == [op |-> op, before |-> before, after |-> after]

Last(seq) == seq[Len(seq)]
Front(seq) == SubSeq(seq, 1, Len(seq) - 1)

InitLog ==
    /\ IdleSync
    /\ IdleCompile
    /\ environment = "linux"
    /\ call = NoCall
    /\ ret = Pending
    /\ log \in {LogContext(w) : w \in 1..MaxIndentWidth}

\* with log.indentation(): lines 62-63, _indent() and the body starts.
LogEnter ==
    /\ UNCHANGED compileVars
    /\ UNCHANGED syncVars
    /\ ~log.unwinding
    /\ Len(log.scopes) < MaxScopes
    /\ Len(log.trace) < MaxLogOps
    /\ log' = [log EXCEPT !.current_indent = Indent(log),
                          !.scopes = Append(@, log.current_indent),
                          !.trace = Append(@, LogEvent("enter", log.current_indent, Indent(log)))]
    /\ UNCHANGED <<call, ret>>

\* Lines 31-35, log(message): the message is printed behind current_indent
\* spaces.
LogMessage ==
    /\ UNCHANGED compileVars
    /\ UNCHANGED syncVars
    /\ ~log.unwinding
    /\ Len(log.trace) < MaxLogOps
    /\ log' = [log EXCEPT
                 !.trace = Append(@, LogEvent("log", log.current_indent, log.current_indent))]
    /\ UNCHANGED <<call, ret>>

\* The body of the innermost scope ends normally.
LogExit ==
    /\ UNCHANGED compileVars
    /\ UNCHANGED syncVars
    /\ ~log.unwinding
    /\ log.scopes # <<>>
    /\ Len(log.trace) < MaxLogOps
    /\ log' = [log EXCEPT !.current_indent = Leave(log, FALSE),
                          !.scopes = Front(@),
                          !.trace = Append(@, LogEvent("exit", Last(log.scopes), Leave(log, FALSE)))]
    /\ UNCHANGED <<call, ret>>

\* The body of the innermost scope raises.
LogRaise ==
    /\ UNCHANGED compileVars
    /\ UNCHANGED syncVars
    /\ ~log.unwinding
    /\ log.scopes # <<>>
    /\ Len(log.trace) < MaxLogOps
    /\ log' = [log EXCEPT !.unwinding = TRUE,
                          !.trace = Append(@, LogEvent("raise", log.current_indent, log.current_indent))]
    /\ UNCHANGED <<call, ret>>

\* The exception leaves the innermost scope still open.
LogUnwind ==
    /\ UNCHANGED compileVars
    /\ UNCHANGED syncVars
    /\ log.unwinding
    /\ log.scopes # <<>>
    /\ Len(log.trace) < MaxLogOps
    /\ log' = [log EXCEPT !.current_indent = Leave(log, TRUE),
                          !.scopes = Front(@),
                          !.trace = Append(@, LogEvent("exit", Last(log.scopes), Leave(log, TRUE)))]
    /\ UNCHANGED <<call, ret>>

\* An except clause around the scopes left so far catches the exception
\* (as compile.py, lines 371-387, does around the resolver).
LogCatch ==
    /\ UNCHANGED compileVars
    /\ UNCHANGED syncVars
    /\ log.unwinding
    /\ Len(log.trace) < MaxLogOps
    /\ \E i \in DOMAIN log.trace : log.trace[i].op = "exit"
    /\ \A i \in DOMAIN log.trace : log.trace[i].op = "raise" =>
          \E j \in DOMAIN log.trace : j > i /\ log.trace[j].op = "exit"
    /\ log' = [log EXCEPT !.unwinding = FALSE,
                          !.trace = Append(@, LogEvent("catch", log.current_indent, log.current_indent))]
    /\ UNCHANGED <<call, ret>>

NextLog == LogEnter \/ LogMessage \/ LogExit \/ LogRaise \/ LogUnwind \/ LogCatch

SpecLog == InitLog /\ [][NextLog]_vars

\* C28: whatever indentation() scopes were entered and left, by the end of
\* the body or by an exception, current_indent is indent_width times the
\* number of scopes still open, it is never negative, and every scope that
\* was left put current_indent back to its value before the scope was entered.
C28_IndentBalanced ==
    /\ log.current_indent = log.indent_width * Len(log.scopes)
    /\ log.current_indent >= 0
    /\ \A i \in DOMAIN log.trace :
          log.trace[i].op = "exit" => log.trace[i].after = log.trace[i].before

C28_Witness ==
    /\ Len(log.trace) = 5
    /\ log.trace[1].op = "enter"
    /\ log.trace[2].op = "enter"
    /\ log.trace[3].op = "raise"
    /\ log.trace[4].op = "exit"
    /\ log.trace[5].op = "catch"
    /\ Len(log.scopes) = 1
    /\ log.current_indent = log.indent_width
====
